---- MODULE Spec2Model ----
(***************************************************************************)
(* A model of the dataform pipeline agent:                                 *)
(*   - define_next_action, the Router          (agent/agent_executor.py)   *)
(*   - update_agent_state, the State Merger    (agent/agent_executor.py)   *)
(*   - DataformTools.upload_and_compile_files and the response repair      *)
(*     loop of fix_compilation_errors          (tools/dataform.py)         *)
(*                                                                         *)
(* AgentState objects and their messages lists live in a heap (objs,       *)
(* lists), so that copying and in-place mutation can be told apart.        *)
(***************************************************************************)
EXTENDS Integers, Sequences, FiniteSets, TLC

\* ------------------------------------------------------------------ bounds
\* longest messages list an update carries
MaxUpdateMsgs == 2
\* number of update_agent_state calls in one run of the merge harness
MaxMerges == 2
\* most files passed to upload_and_compile_files, and most files a repair returns
MaxFiles == 2
\* model calls after which one run of the response repair loop is cut off
MaxModelCalls == 3
\* calls of the single-shot model call sites the harness makes
MaxSiteCalls == 2
\* AgentState objects interactive_mode creates (passes of its outer loop)
MaxSessions == 2
\* graph.stream calls on one AgentState (passes of the inner loop)
MaxRuns == 2

\* ------------------------------------------------------------------ values
\* langgraph's END sentinel
END == "__end__"
\* Python's None, as a value of state.next
NoNext == "None"
\* Python's None, as a value of a tables field
None == [kind |-> "None"]
\* a Python list of table descriptors
ListOf(xs) == [kind |-> "list", items |-> xs]

RouterNames ==
  {"generate_code", "ask_clarifications", "identify_dataform_files", "upload_files",
   "fix_errors", "handle_errors", "validate_data", "elicit_schema"}
\* every value of state.next the model draws
NextValues == RouterNames \cup {NoNext, "ask_for_further_input", END, "bogus_task"}
\* the values of next the merge harness puts in updates
NextUpdates == {NoNext, "generate_code", "ask_for_further_input", END}

Contents == {"a", "b"}
\* role-tagged messages: two roles share content "a"
Msgs ==
  {[role |-> "human", content |-> "a"], [role |-> "ai", content |-> "a"],
   [role |-> "ai", content |-> "b"]}
TableVals == {None, ListOf(<<>>), ListOf(<<"t1">>)}

\* sequences over S of length at most n
SeqsUpTo(S, n) == UNION {[1..k -> S] : k \in 0..n}

\* the attributes of an AgentState the model carries
StateFields ==
  {"input", "messages", "next", "source_tables", "target_tables", "intermediate_tables"}

\* the key sets of the updates the harness applies
UpdateKeySets ==
  { {}, {"messages"}, {"next"}, {"messages", "bogus_key"}, {"source_tables"},
    {"target_tables"}, {"source_tables", "target_tables"}, {"intermediate_tables"},
    {"bogus_key"}, {"__end__"}, {"next", "__end__"}, {"next", "intermediate_tables"} }

\* an update (the dict `output`): its keys, and the value under each key it has
Updates ==
  UNION { { [keys |-> K, messages |-> m, next |-> n, source_tables |-> s,
             target_tables |-> t, intermediate_tables |-> i] :
              m \in (IF "messages" \in K THEN SeqsUpTo(Msgs, MaxUpdateMsgs) ELSE {<<>>}),
              n \in (IF "next" \in K THEN NextUpdates ELSE {NoNext}),
              s \in (IF "source_tables" \in K THEN TableVals ELSE {None}),
              t \in (IF "target_tables" \in K THEN TableVals ELSE {None}),
              i \in (IF "intermediate_tables" \in K THEN TableVals ELSE {None}) } :
          K \in UpdateKeySets }
NoUpdate ==
  [keys |-> {}, messages |-> <<>>, next |-> NoNext, source_tables |-> None,
   target_tables |-> None, intermediate_tables |-> None]

ObjIds == {1, 2}
ListIds == {1, 2}

VARIABLES
  objs,      \* heap of AgentState objects: id -> fields (messages is a list id)
  lists,     \* heap of list objects: id -> sequence of messages
  state,     \* the object the variable `state` is bound to
  arg,       \* the object passed to the last update_agent_state call (0: none)
  snapshot,  \* the value of that object when the call was made
  output,    \* the update of the last update_agent_state call
  routed,    \* what the last define_next_action call returned
  last,      \* the last operation executed
  merges     \* update_agent_state calls made so far

mergeVars == <<objs, lists, state, arg, snapshot, output, routed, last, merges>>

\* upload_and_compile_files(files, workspace_name), one call
VARIABLES
  cpc,               \* where the call is: "upload", "compile", "fix", "refine",
                     \* "write_fixed", "done" (returned), "raised" (fault propagated)
  files,             \* the argument `files`
  upload_i,          \* position of `for file in files`
  workspace,         \* the remote workspace: path -> content (-1: no such file)
  writeLog,          \* the write_file requests of the current batch, in order
  attempt,           \* iteration of `for _ in range(3)`, from 1
  compileLog,        \* what each create_compilation_result request answered
  repairLog,         \* how each fix_compilation_errors call ended
  repairArg,         \* the `files` argument of the last fix_compilation_errors call
  modelCalls,        \* generate_content calls of the current fix_compilation_errors
  prompt,            \* fix_compilation_errors' local `prompt`
  sent,              \* the last prompt given to generate_content
  response_content,  \* fix_compilation_errors' local `response_content`
  responses,         \* what generate_content returned in the current
                     \* fix_compilation_errors call, in order
  fixed_files,       \* the local `fixed_files`
  fix_i,             \* position of `for fixed_file in fixed_files`
  result             \* the value returned

compileVars ==
  <<cpc, files, upload_i, workspace, writeLog, attempt, compileLog, repairLog, repairArg,
    modelCalls, prompt, sent, response_content, responses, fixed_files, fix_i, result>>

\* --- the other model call sites: identify_dataform_files and
\* --- structure_transformation_request
VARIABLES
  site_log           \* how each call of one of the two call sites ended

toolVars == <<site_log>>

\* --- the compiled workflow graph, one graph.stream(...) run
VARIABLES
  gnode,             \* the step the engine runs next, END, or "fault"
  gnext,             \* `next` of the graph's state
  gprev,             \* the step executed last in this run
  gsteps,            \* steps executed in this run
  gfault             \* the fault that ended the run

graphVars == <<gnode, gnext, gprev, gsteps, gfault>>

\* --- interactive_mode; its local `state` is the variable state above
VARIABLES
  dpc,               \* where interactive_mode is: "session" (top of the outer loop),
                     \* "loop" (top of the inner loop), "stream" (the for statement
                     \* asks for the next output), "body" (the body of the for),
                     \* "except" (a fault left graph.stream), "returned", "raised"
  user_request,      \* the local `user_request`
  user_request_dummy, \* the local `user_request_dummy`: the answer to "Continue?"
  chunk,             \* the local `output`: what graph.stream yielded last
  exc,               \* the fault that left graph.stream
  dfault,            \* the fault that left interactive_mode
  sessions,          \* AgentState objects created so far
  runs,              \* graph.stream calls on the current AgentState
  mapped             \* the run in which next == "ask_for_further_input" was
                     \* mapped to END for the current AgentState (0: none)

driverVars == <<dpc, user_request, user_request_dummy, chunk, exc, dfault, sessions, runs, mapped>>

vars == <<mergeVars, compileVars, toolVars, graphVars, driverVars>>

\* the value of a state object, its messages list read through the heap
Deref(id) == [objs[id] EXCEPT !.messages = lists[objs[id].messages]]

\* AgentState(input="", messages=[], target_tables=[]) with the given next
FreshState(l, n) ==
  [input |-> "", messages |-> l, next |-> n, source_tables |-> None,
   target_tables |-> ListOf(<<>>), intermediate_tables |-> None, extra |-> {}]

\* ------------------------------------------------------------------ Router
define_next_action_no_elicit(s) ==
  IF s.next = "generate_code" THEN "generate_code"
  ELSE IF s.next = "ask_clarifications" THEN "ask_clarifications"
  ELSE IF s.next = "identify_dataform_files" THEN "identify_dataform_files"
  ELSE IF s.next = "upload_files" THEN "upload_files"
  ELSE IF s.next = "fix_errors" THEN "fix_errors"
  ELSE IF s.next = "handle_errors" THEN "handle_errors"
  ELSE IF s.next = "validate_data" THEN "validate_data"
  ELSE END

define_next_action(s) ==
  IF s.next = "generate_code" THEN "generate_code"
  ELSE IF s.next = "ask_clarifications" THEN "ask_clarifications"
  ELSE IF s.next = "identify_dataform_files" THEN "identify_dataform_files"
  ELSE IF s.next = "upload_files" THEN "upload_files"
  ELSE IF s.next = "fix_errors" THEN "fix_errors"
  ELSE IF s.next = "handle_errors" THEN "handle_errors"
  ELSE IF s.next = "validate_data" THEN "validate_data"
  ELSE IF s.next = "elicit_schema" THEN "elicit_schema"
  ELSE END

\* ------------------------------------------------------------ State Merger
HasContent(msgs, c) == \E i \in 1..Len(msgs) : msgs[i].content = c

\* list.extend(<generator>) with the filter decided once, against the list as it
\* was before the call
extend_eager(msgs, value) ==
  msgs \o SelectSeq(value, LAMBDA m : ~HasContent(msgs, m.content))

\* list.extend without the filter
extend_all(msgs, value) == msgs \o value

\* new_state.messages.extend(m for m in value if not any(sm.content == m.content
\* for sm in new_state.messages)): the generator is consumed one message at a time
\* and each test reads the list as already extended
RECURSIVE extend(_, _)
extend(msgs, value) ==
  IF value = <<>> THEN msgs
  ELSE extend(IF HasContent(msgs, Head(value).content) THEN msgs
              ELSE Append(msgs, Head(value)),
              Tail(value))

replaces_table_always(value) == TRUE

replaces_table_if_truthy(value) ==
  IF value = None THEN FALSE ELSE value.items # <<>>

\* `if value is not None`
replaces_table(value) == value # None

hasattr_always(s, key) == TRUE

\* hasattr(new_state, key)
hasattr(s, key) == key \in StateFields \cup s.extra

\* the keys of the update the loop body acts on
Present(out, key) == key \in out.keys /\ key # "__end__"

\* update_agent_state on values: s is the deep copy, out the update
update_agent_state(s, out) ==
  [ input |-> s.input,
    messages |->
      IF Present(out, "messages") THEN extend(s.messages, out.messages) ELSE s.messages,
    source_tables |->
      IF Present(out, "source_tables") /\ replaces_table(out.source_tables)
      THEN out.source_tables ELSE s.source_tables,
    target_tables |->
      IF Present(out, "target_tables") /\ replaces_table(out.target_tables)
      THEN out.target_tables ELSE s.target_tables,
    next |-> IF Present(out, "next") THEN out.next ELSE s.next,
    intermediate_tables |->
      IF Present(out, "intermediate_tables") /\ hasattr(s, "intermediate_tables")
      THEN out.intermediate_tables ELSE s.intermediate_tables,
    extra |->
      s.extra \cup {k \in out.keys \ StateFields : Present(out, k) /\ hasattr(s, k)} ]

\* copy.copy: the copy's messages attribute is the input's list
copy_shares_list(src, fresh) == src

\* deepcopy(state): the copy's messages attribute is a new list
deepcopy_list(src, fresh) == fresh

\* an object id other than the input's
NewObj(inp) == CHOOSE i \in ObjIds : i # inp
\* a list id other than the input's
NewList(used) == CHOOSE l \in ListIds : l # used

\* state = update_agent_state(state, output)
UpdateAgentState(out) ==
  LET inp == state
      inL == objs[inp].messages
      new == NewObj(inp)
      newL == deepcopy_list(inL, NewList(inL))
      new_state == update_agent_state(Deref(inp), out)
  IN /\ merges < MaxMerges
     /\ merges' = merges + 1
     /\ objs' = [i \in {inp, new} |->
                   IF i = new THEN [new_state EXCEPT !.messages = newL] ELSE objs[inp]]
     /\ lists' = [l \in {inL, newL} |->
                   IF l = newL THEN new_state.messages ELSE lists[inL]]
     /\ state' = new
     /\ arg' = inp
     /\ snapshot' = Deref(inp)
     /\ output' = out
     /\ last' = "merged"
     /\ UNCHANGED <<routed, compileVars, toolVars, graphVars, driverVars>>

Merge == \E out \in Updates : UpdateAgentState(out)

\* interactive_mode: `if not state.messages:` store the request in state.input
\* and append it, in place, as a human message
SeedRequest ==
  \E req \in Contents :
    /\ lists[objs[state].messages] = <<>>
    /\ objs' = [objs EXCEPT ![state].input = req]
    /\ lists' = [lists EXCEPT ![objs[state].messages] =
                   Append(@, [role |-> "human", content |-> req])]
    /\ last' = "seeded"
    /\ UNCHANGED <<state, arg, snapshot, output, routed, merges, compileVars, toolVars, graphVars, driverVars>>

\* interactive_mode: `if state.next == "ask_for_further_input": state.next = END`
MapFurtherInput ==
  /\ objs[state].next = "ask_for_further_input"
  /\ objs' = [objs EXCEPT ![state].next = END]
  /\ last' = "mapped"
  /\ UNCHANGED <<lists, state, arg, snapshot, output, routed, merges, compileVars, toolVars, graphVars, driverVars>>

\* a call of define_next_action on the current state
Route ==
  /\ routed' = define_next_action(Deref(state))
  /\ arg' = state
  /\ snapshot' = Deref(state)
  /\ last' = "routed"
  /\ UNCHANGED <<objs, lists, state, output, merges, compileVars, toolVars, graphVars, driverVars>>

\* -------------------------------------------------- Compilation Repair Loop
\* a loop that makes one pass more
CompileAttemptsPlusOne == 3 + 1

\* `for _ in range(3)`
CompileAttempts == 3

\* file paths are numbered; content 0 is what the caller passed, content k what
\* the k-th repair returned
Paths == 1..MaxFiles
NoFile == -1
InputFiles(k) == [i \in 1..k |-> [path |-> i, content |-> 0]]
\* the replacement files of a parsed response: the first j paths
Replacements(j, k) == [i \in 1..j |-> [path |-> i, content |-> k]]

\* what the compilation service answers: a result with errors, a result with
\* none, a result object without the attribute, or a fault
CompileAnswers ==
  { [raised |-> FALSE, has_attr |-> TRUE, compilation_errors |-> <<"error">>],
    [raised |-> FALSE, has_attr |-> TRUE, compilation_errors |-> <<>>],
    [raised |-> FALSE, has_attr |-> FALSE, compilation_errors |-> <<>>],
    [raised |-> TRUE, has_attr |-> FALSE, compilation_errors |-> <<>>] }

\* what the answer is, whatever the caller makes of it
AnswerKind(cr) ==
  IF cr.raised THEN "raised"
  ELSE IF cr.has_attr /\ Len(cr.compilation_errors) > 0 THEN "errors" ELSE "no_errors"

reports_errors_never(cr) == FALSE

reports_errors_attr_only(cr) == cr.has_attr

\* hasattr(compilation_results, "compilation_errors") and
\* compilation_results.compilation_errors
reports_errors(cr) == cr.has_attr /\ cr.compilation_errors # <<>>

\* what generate_content answers: text that is no JSON, JSON that is no object,
\* an object without 'files', an object with an empty 'files', an object with
\* nfiles replacement files; or a fault
ResponseKinds == {"bad_json", "not_dict", "no_files_key", "empty_files", "files"}
ModelAnswers ==
  { [raised |-> r, kind |-> k, nfiles |-> j] :
      r \in BOOLEAN, k \in ResponseKinds, j \in 0..MaxFiles } \cap
  { a \in [raised : BOOLEAN, kind : ResponseKinds, nfiles : 0..MaxFiles] :
      /\ (a.kind = "files") = (a.nfiles > 0)
      /\ a.raised => a.kind = "bad_json" }
NoResponse == [kind |-> "none", nfiles |-> 0, n |-> 0]
NoPrompt == [kind |-> "none"]

parses_anything(resp) == TRUE

parses_never(resp) == FALSE

\* json.loads(response_content) succeeds
parses(resp) == resp.kind # "bad_json"
\* the JSONDecodeError `e` that json.loads raises on resp
parse_error(resp) == [kind |-> "JSONDecodeError", of |-> resp.n]

while_bounded(n) == n < 2

\* `while True`: the loop of fix_compilation_errors goes on after n model calls
while_true(n) == TRUE

repair_prompt_chained(p, s) == s

\* the `prompt` argument of fix_json_parse_errors(prompt, response_content, e):
\* the caller's local p, not the prompt s sent last
repair_prompt_base(p, s) == p
\* fixed_files_json.get("files", []) of a parsed object
get_files(resp, k) ==
  IF resp.kind = "files" THEN Replacements(resp.nfiles, k) ELSE <<>>

gives_up_always(fixed) == TRUE

gives_up_never(fixed) == FALSE

\* `if not fixed_files: break`
gives_up(fixed) == fixed = <<>>

Pending == [kind |-> "pending"]
ReturnedNone == [kind |-> "None"]
WorkspacePath == "workspace_path"
\* compilation_result_dict; the name of a compilation result is its number
Summary(cr) ==
  [kind |-> "summary", name |-> Len(compileLog) + 1, workspace |-> WorkspacePath,
   compilation_errors |-> IF cr.has_attr THEN cr.compilation_errors ELSE <<>>]

CompileIdle ==
  /\ cpc = "idle"
  /\ files = <<>>
  /\ upload_i = 0
  /\ workspace = [p \in Paths |-> NoFile]
  /\ writeLog = <<>>
  /\ attempt = 0
  /\ compileLog = <<>>
  /\ repairLog = <<>>
  /\ repairArg = <<>>
  /\ modelCalls = 0
  /\ prompt = NoPrompt
  /\ sent = NoPrompt
  /\ response_content = NoResponse
  /\ responses = <<>>
  /\ fixed_files = <<>>
  /\ fix_i = 0
  /\ result = Pending

ToolIdle == site_log = <<>>

\* no fault
NoFault == [type |-> "none", text |-> <<>>]
\* no request read
NoRequest == "<unread>"

DriverIdle ==
  /\ dpc = "idle"
  /\ user_request = NoRequest
  /\ user_request_dummy = NoRequest
  /\ chunk = [key |-> "none", update |-> NoUpdate, value |-> FreshState(<<>>, NoNext)]
  /\ exc = NoFault
  /\ dfault = NoFault
  /\ sessions = 0
  /\ runs = 0
  /\ mapped = 0

GraphIdle ==
  /\ gnode = "idle"
  /\ gnext = NoNext
  /\ gprev = "none"
  /\ gsteps = 0
  /\ gfault = "none"

MergeIdle ==
  /\ objs = (1 :> FreshState(1, NoNext))
  /\ lists = (1 :> <<>>)
  /\ state = 1
  /\ arg = 0
  /\ snapshot = FreshState(<<>>, NoNext)
  /\ output = NoUpdate
  /\ routed = "none"
  /\ last = "init"
  /\ merges = 0

\* the state at the call of upload_and_compile_files
InitCompile ==
  /\ MergeIdle
  /\ ToolIdle
  /\ GraphIdle
  /\ DriverIdle
  /\ cpc = "upload"
  /\ \E k \in 0..MaxFiles : files = InputFiles(k)
  /\ upload_i = 1
  /\ workspace \in [Paths -> {NoFile, 0}]
  /\ writeLog = <<>>
  /\ attempt = 0
  /\ compileLog = <<>>
  /\ repairLog = <<>>
  /\ repairArg = <<>>
  /\ modelCalls = 0
  /\ prompt = NoPrompt
  /\ sent = NoPrompt
  /\ response_content = NoResponse
  /\ responses = <<>>
  /\ fixed_files = <<>>
  /\ fix_i = 0
  /\ result = Pending

upload_stops_at_failure(i, ok) == IF ok THEN i + 1 ELSE Len(files) + 1

\* where `for file in files` goes after a pass: the try/except is inside the
\* loop body, so on to the next file whether or not the write failed
next_upload(i, ok) == i + 1

\* one pass of `for file in files`: a write_file request; a failure is caught
UploadFile ==
  /\ cpc = "upload"
  /\ upload_i <= Len(files)
  /\ \E ok \in BOOLEAN :
       /\ writeLog' = Append(writeLog, [path |-> files[upload_i].path, ok |-> ok])
       /\ workspace' = IF ok
                       THEN [workspace EXCEPT ![files[upload_i].path] = files[upload_i].content]
                       ELSE workspace
       /\ upload_i' = next_upload(upload_i, ok)
  /\ UNCHANGED <<cpc, files, attempt, compileLog, repairLog, repairArg, modelCalls, prompt,
                 sent, response_content, responses, fixed_files, fix_i, result, mergeVars, toolVars, graphVars, driverVars>>

\* the upload loop is over: enter `for _ in range(3)`
StartCompiling ==
  /\ cpc = "upload"
  /\ upload_i > Len(files)
  /\ cpc' = IF CompileAttempts >= 1 THEN "compile" ELSE "done"
  /\ result' = IF CompileAttempts >= 1 THEN result ELSE ReturnedNone
  /\ attempt' = 1
  /\ UNCHANGED <<files, upload_i, workspace, writeLog, compileLog, repairLog, repairArg,
                 modelCalls, prompt, sent, response_content, responses, fixed_files, fix_i,
                 mergeVars, toolVars, graphVars, driverVars>>

\* create_compilation_result, and the test of its answer
Compile ==
  /\ cpc = "compile"
  /\ \E cr \in CompileAnswers :
       /\ compileLog' = Append(compileLog, AnswerKind(cr))
       /\ cpc' = IF cr.raised THEN "raised"
                 ELSE IF reports_errors(cr) THEN "fix" ELSE "done"
       /\ result' = IF ~cr.raised /\ ~reports_errors(cr) THEN Summary(cr) ELSE result
  /\ UNCHANGED <<files, upload_i, workspace, writeLog, attempt, repairLog, repairArg,
                 modelCalls, prompt, sent, response_content, responses, fixed_files, fix_i,
                 mergeVars, toolVars, graphVars, driverVars>>

\* a pass that ends the call with None, as the `break` does
EndOfAttempt_breaks ==
  /\ attempt' = attempt + 1
  /\ cpc' = "done"
  /\ result' = ReturnedNone

\* the end of one pass of `for _ in range(3)` that neither returned nor broke out
EndOfAttempt ==
  /\ attempt' = attempt + 1
  /\ cpc' = IF attempt < CompileAttempts THEN "compile" ELSE "done"
  /\ result' = IF attempt < CompileAttempts THEN result ELSE ReturnedNone

\* fix_compilation_errors returned `fixed`: break, or start writing the files
RepairReturned(fixed) ==
  /\ repairLog' = Append(repairLog, IF fixed = <<>> THEN "no_files" ELSE "files")
  /\ fixed_files' = fixed
  /\ IF gives_up(fixed)
     THEN /\ cpc' = "done"
          /\ result' = ReturnedNone
          /\ UNCHANGED <<attempt, fix_i, writeLog>>
     ELSE /\ cpc' = "write_fixed"
          /\ fix_i' = 1
          /\ writeLog' = <<>>
          /\ UNCHANGED <<attempt, result>>

\* a fault inside the try block: `except Exception` logs it, the pass ends
RepairRaised ==
  /\ repairLog' = Append(repairLog, "raised")
  /\ EndOfAttempt
  /\ UNCHANGED <<fixed_files, fix_i, writeLog>>

\* the answer to a generate_content call, as the loop of fix_compilation_errors
\* takes it: parsed and returned, a fault, or kept for a repair prompt
TakeAnswer(a, n) ==
  LET resp == [kind |-> a.kind, nfiles |-> a.nfiles, n |-> n]
      earlier == IF n = 1 THEN <<>> ELSE responses
  IN /\ modelCalls' = n
     /\ IF a.raised
        THEN /\ RepairRaised
             /\ responses' = earlier
             /\ UNCHANGED response_content
        ELSE /\ response_content' = resp
             /\ responses' = Append(earlier, resp)
             /\ IF ~parses(resp)
                THEN /\ cpc' = "refine"
                     /\ UNCHANGED <<repairLog, fixed_files, fix_i, writeLog, attempt, result>>
                ELSE IF resp.kind = "not_dict"
                THEN RepairRaised
                ELSE RepairReturned(get_files(resp, Len(repairLog) + 1))

\* fix_compilation_errors(files, compilation_results) up to its first parse
FixCompilationErrors ==
  /\ cpc = "fix"
  /\ repairArg' = files
  /\ prompt' = [kind |-> "fix_compilation_errors", files |-> files, errors |-> Len(compileLog)]
  /\ sent' = prompt'
  /\ \E a \in ModelAnswers : TakeAnswer(a, 1)
  /\ UNCHANGED <<files, upload_i, workspace, compileLog, mergeVars, toolVars, graphVars, driverVars>>

\* the except branch of `while True`: fix_json_parse_errors(prompt,
\* response_content, e), and the parse of what it returns
FixJsonParseErrors ==
  /\ cpc = "refine"
  /\ IF while_true(modelCalls)
     THEN /\ modelCalls < MaxModelCalls
          /\ sent' = [kind |-> "fix_json_parse_errors",
                      prompt |-> repair_prompt_base(prompt, sent),
                      previous_response |-> response_content,
                      error |-> parse_error(response_content)]
          /\ \E a \in ModelAnswers : TakeAnswer(a, modelCalls + 1)
     ELSE /\ RepairReturned(<<>>)
          /\ UNCHANGED <<modelCalls, sent, response_content, responses>>
  /\ UNCHANGED <<files, upload_i, workspace, compileLog, repairArg, prompt, mergeVars, toolVars, graphVars, driverVars>>

\* one pass of `for fixed_file in fixed_files`: a write_file request; a failure
\* leaves the loop through `except Exception`
WriteFixedFile ==
  /\ cpc = "write_fixed"
  /\ \E ok \in BOOLEAN :
       /\ writeLog' = Append(writeLog, [path |-> fixed_files[fix_i].path, ok |-> ok])
       /\ IF ok
          THEN /\ workspace' = [workspace EXCEPT
                                  ![fixed_files[fix_i].path] = fixed_files[fix_i].content]
               /\ fix_i' = fix_i + 1
               /\ IF fix_i = Len(fixed_files)
                  THEN EndOfAttempt
                  ELSE UNCHANGED <<cpc, attempt, result>>
          ELSE /\ EndOfAttempt
               /\ UNCHANGED <<workspace, fix_i>>
  /\ UNCHANGED <<files, upload_i, compileLog, repairLog, repairArg, modelCalls, prompt,
                 sent, response_content, responses, fixed_files, mergeVars, toolVars, graphVars, driverVars>>

NextCompile ==
  \/ UploadFile
  \/ StartCompiling
  \/ Compile
  \/ FixCompilationErrors
  \/ FixJsonParseErrors
  \/ WriteFixedFile

SpecCompile == InitCompile /\ [][NextCompile]_vars

\* the call is sequential code: the statement it is at runs, and every external
\* call it makes comes back (with a value or a fault)
SpecCompileFair == SpecCompile /\ WF_vars(NextCompile)

\* ------------------------------------------- the single-shot call sites
\* how a call site that parses one model answer ends
SiteEnd(site, a, on_parse_failure) ==
  IF a.raised
  THEN [site |-> site, calls |-> 1, outcome |-> "raised", cause |-> "generate_content"]
  ELSE IF ~parses(a)
  THEN [site |-> site, calls |-> 1, outcome |-> on_parse_failure,
        cause |-> "JSONDecodeError"]
  ELSE [site |-> site, calls |-> 1, outcome |-> "value", cause |-> "none"]

\* the call sites run in the steps before upload_files
BeforeUpload ==
  /\ cpc = "upload"
  /\ upload_i = 1
  /\ Len(site_log) < MaxSiteCalls

\* DataformTools.identify_dataform_files: one generate_content call; a
\* JSONDecodeError is printed and None is returned
IdentifyDataformFiles ==
  /\ BeforeUpload
  /\ \E a \in ModelAnswers :
       site_log' = Append(site_log, SiteEnd("identify_dataform_files", a, "None"))
  /\ UNCHANGED <<mergeVars, compileVars, graphVars, driverVars>>

\* VertexAITools.structure_transformation_request: one generate_content call
\* and a json.loads outside any try
StructureTransformationRequest ==
  /\ BeforeUpload
  /\ \E a \in ModelAnswers :
       site_log' = Append(site_log, SiteEnd("structure_transformation_request", a, "raised"))
  /\ UNCHANGED <<mergeVars, compileVars, graphVars, driverVars>>

NextTools ==
  \/ NextCompile
  \/ IdentifyDataformFiles
  \/ StructureTransformationRequest

SpecTools == InitCompile /\ [][NextTools]_vars

\* ------------------------------------------------------- Workflow Engine
\* "recursion_limit": 20 of graph.stream
RecursionLimitPlusOne == 20 + 1

RecursionLimit == 20

\* workflow.add_node(...)
Nodes ==
  {"get_initial_user_request", "elicit_schema", "generate_code",
   "identify_dataform_files", "upload_files", "ask_clarifications",
   "ask_for_further_input", "define_next_action"}
\* workflow.set_entry_point(...)
EntryPoint == "get_initial_user_request"
\* workflow.add_edge(...)
StaticEdges ==
  ("ask_for_further_input" :> END) @@ ("get_initial_user_request" :> "elicit_schema")
\* workflow.add_conditional_edges(..., define_next_action)
ConditionalSources ==
  {"elicit_schema", "ask_clarifications", "generate_code", "identify_dataform_files",
   "upload_files"}

\* an update that does not carry `next`
Absent == "absent"
\* what a Task Step's update says about `next`
StepNexts == NextValues \cup {Absent}
\* `next` of the graph's state after a step's update is applied
fold_next(old, u) == IF u = Absent THEN old ELSE u

\* where the graph's edges lead after step n, the state's next being nxt; a
\* conditional edge has no path map, so the Router's return names the step
edge(n, nxt) ==
  IF n \in DOMAIN StaticEdges THEN StaticEdges[n]
  ELSE IF n \in ConditionalSources THEN define_next_action([next |-> nxt])
  ELSE END

\* the state handed to graph.stream, at the entry point
InitGraph ==
  /\ CompileIdle
  /\ MergeIdle
  /\ ToolIdle
  /\ DriverIdle
  /\ gnode = EntryPoint
  /\ gnext \in NextValues
  /\ gprev = "none"
  /\ gsteps = 0
  /\ gfault = "none"

\* the engine runs the step it is at and follows the step's edge; a name that
\* is no node of the graph cannot be dispatched to: the run faults or, in
\* engines that drop the unknown destination, ends
\* a step is due and the budget allows it
StepDue ==
  /\ gnode \in Nodes
  /\ gsteps < RecursionLimit

\* the step raises
TaskRaises ==
  /\ gnode' = "fault"
  /\ gfault' = "task"
  /\ UNCHANGED <<gnext, gprev, gsteps>>

\* the step returns an update whose next is u
TaskReturns(u) ==
  LET nxt == fold_next(gnext, u)
      dest == edge(gnode, nxt)
  IN /\ gnext' = nxt
     /\ gprev' = gnode
     /\ gsteps' = gsteps + 1
     /\ IF dest \in Nodes \cup {END}
        THEN gnode' = dest /\ UNCHANGED gfault
        ELSE \/ gnode' = "fault" /\ gfault' = "KeyError"
             \/ gnode' = END /\ UNCHANGED gfault

RunTask ==
  /\ StepDue
  /\ \/ TaskRaises
     \/ \E u \in StepNexts : TaskReturns(u)
  /\ UNCHANGED <<mergeVars, compileVars, toolVars, driverVars>>

\* the step budget is used up with a step still due: GraphRecursionError
OutOfSteps ==
  /\ gnode \in Nodes
  /\ gsteps = RecursionLimit
  /\ gnode' = "fault"
  /\ gfault' = "GraphRecursionError"
  /\ UNCHANGED <<gnext, gprev, gsteps>>

RecursionLimitReached ==
  /\ OutOfSteps
  /\ UNCHANGED <<mergeVars, compileVars, toolVars, driverVars>>

NextGraph == RunTask \/ RecursionLimitReached

SpecGraph == InitGraph /\ [][NextGraph]_vars

\* ----------------------------------------------------- Interactive Driver
\* what the user types at "Your request: "
Requests == {"exit", "EXIT", "Quit", "exits", ""}

lower_identity(text) == text

\* str.lower, on the requests the model draws
lower(text) ==
  IF text = "EXIT" THEN "exit"
  ELSE IF text = "Quit" THEN "quit"
  ELSE text

\* `user_request.lower() in ["exit", "quit"]`
is_exit(text) == lower(text) \in {"exit", "quit"}

\* what the user types at "Continue? (yes/no):) "
ContinueAnswers == {"yes", "no", "exit"}

answer_tested_for_stop(answer) == is_exit(answer) \/ answer = "no"

\* `user_request_dummy = input(...)`: the value is assigned and never read
answer_tested(answer) == FALSE

\* the text the except clause looks for, and texts of faults, as words
KnownEdge == <<"branch:", "upload_files", ":wrapper", ":end">>
FaultTexts ==
  { KnownEdge,
    <<"'">> \o KnownEdge \o <<"'">>,
    <<"branch:", "upload_files", ":wrapper">>,
    <<"target_tables">> }
\* the faults a Task Step can raise
TaskFaults == [type : {"KeyError", "ValueError"}, text : FaultTexts]

\* `pat in text`
contains(text, pat) ==
  \E i \in 0..(Len(text) - Len(pat)) : SubSeq(text, i + 1, i + Len(pat)) = pat

caught_any_KeyError(e) == e.type = "KeyError"

\* `except KeyError as e: if "branch:upload_files:wrapper:end" in str(e)`
caught(e) == e.type = "KeyError" /\ contains(e.text, KnownEdge)

\* the update of a step, as the dict the driver is handed
StepUpdate(u) ==
  IF u = Absent THEN NoUpdate ELSE [NoUpdate EXCEPT !.keys = {"next"}, !.next = u]

\* the fault of a dispatch to a name that is no node
RoutingFault(src, dest) ==
  [type |-> "KeyError", text |-> <<"branch:", src, ":define_next_action", ":" \o dest>>]

\* interactive_mode is called
InitDriver ==
  /\ CompileIdle
  /\ MergeIdle
  /\ ToolIdle
  /\ GraphIdle
  /\ dpc = "session"
  /\ user_request = NoRequest
  /\ user_request_dummy = NoRequest
  /\ chunk = [key |-> "none", update |-> NoUpdate, value |-> FreshState(<<>>, NoNext)]
  /\ exc = NoFault
  /\ dfault = NoFault
  /\ sessions = 0
  /\ runs = 0
  /\ mapped = 0

\* the outer `while True`: state = AgentState(input="", messages=[], target_tables=[])
NewSession ==
  /\ dpc = "session"
  /\ sessions < MaxSessions
  /\ sessions' = sessions + 1
  /\ objs' = (1 :> FreshState(1, NoNext))
  /\ lists' = (1 :> <<>>)
  /\ state' = 1
  /\ runs' = 0
  /\ mapped' = 0
  /\ dpc' = "loop"
  /\ last' = "new_session"
  /\ UNCHANGED <<arg, snapshot, output, routed, merges, user_request, user_request_dummy, chunk, exc, dfault,
                 compileVars, toolVars, graphVars>>

\* the inner `while True`, `if not state.messages:` read a request; return on
\* the exit token, else seed the state
ReadRequest ==
  /\ dpc = "loop"
  /\ lists[objs[state].messages] = <<>>
  /\ \E req \in Requests :
       /\ user_request' = req
       /\ IF is_exit(req)
          THEN /\ dpc' = "returned"
               /\ last' = "exit"
               /\ UNCHANGED <<objs, lists>>
          ELSE /\ objs' = [objs EXCEPT ![state].input = req]
               /\ lists' = [lists EXCEPT ![objs[state].messages] =
                              Append(@, [role |-> "human", content |-> req])]
               /\ last' = "seeded"
               /\ UNCHANGED dpc
  /\ UNCHANGED <<state, arg, snapshot, output, routed, merges, user_request_dummy, chunk, exc, dfault, sessions,
                 runs, mapped, compileVars, toolVars, graphVars>>

\* `for output in graph.stream(state, {"recursion_limit": 20, ...})`: a run of
\* the graph on the driver's state starts
Stream ==
  /\ dpc = "loop"
  /\ lists[objs[state].messages] # <<>>
  /\ runs < MaxRuns
  /\ runs' = runs + 1
  /\ gnode' = EntryPoint
  /\ gnext' = objs[state].next
  /\ gprev' = "none"
  /\ gsteps' = 0
  /\ gfault' = "none"
  /\ exc' = NoFault
  /\ dpc' = "stream"
  /\ last' = "stream"
  /\ UNCHANGED <<objs, lists, state, arg, snapshot, output, routed, merges, user_request, user_request_dummy,
                 chunk, dfault, sessions, mapped, compileVars, toolVars>>

\* the for statement asks for the next output and the engine runs the step
\* that is due: the step's update is yielded, or a fault leaves graph.stream
StreamTask ==
  /\ dpc = "stream"
  /\ StepDue
  /\ \/ /\ TaskRaises
        /\ exc' \in TaskFaults
        /\ dpc' = "except"
        /\ UNCHANGED chunk
     \/ \E u \in StepNexts :
          /\ TaskReturns(u)
          /\ IF gnode' = "fault"
             THEN /\ exc' = RoutingFault(gnode, edge(gnode, gnext'))
                  /\ dpc' = "except"
                  /\ UNCHANGED chunk
             ELSE /\ chunk' = [key |-> gnode, update |-> StepUpdate(u),
                               value |-> FreshState(<<>>, NoNext)]
                  /\ dpc' = "body"
                  /\ UNCHANGED exc
  /\ UNCHANGED <<mergeVars, user_request, user_request_dummy, dfault, sessions, runs, mapped, compileVars,
                 toolVars>>

\* the for statement asks for the next output with the budget used up
StreamOutOfSteps ==
  /\ dpc = "stream"
  /\ OutOfSteps
  /\ exc' = [type |-> "GraphRecursionError", text |-> <<"Recursion limit reached">>]
  /\ dpc' = "except"
  /\ UNCHANGED <<mergeVars, user_request, user_request_dummy, chunk, dfault, sessions, runs, mapped,
                 compileVars, toolVars>>

\* the run of the graph is over: the engine yields the final state under
\* "__end__" (engines that have this output), then the for statement ends
StreamEnd ==
  /\ dpc = "stream"
  /\ gnode \in {END, "exhausted"}
  /\ gnode' = "exhausted"
  /\ \/ /\ gnode = END
        /\ chunk' = [key |-> "__end__", update |-> NoUpdate,
                     value |-> [Deref(state) EXCEPT !.next = gnext]]
        /\ dpc' = "body"
        /\ UNCHANGED last
     \/ /\ dpc' = "loop"
        /\ last' = "stream_ended"
        /\ UNCHANGED chunk
  /\ UNCHANGED <<objs, lists, state, arg, snapshot, output, routed, merges, user_request, user_request_dummy,
                 exc, dfault, sessions, runs, mapped, gnext, gprev, gsteps, gfault,
                 compileVars, toolVars>>

\* the body of the for: `state = output["__end__"]` for the final output (the
\* merge of any other output is commented out), then the tests of state.next
\* and, unless the for was left, the "Continue?" prompt
HandleOutput ==
  LET held == IF chunk.key = "__end__" THEN chunk.value ELSE Deref(state)
      mapping == held.next = "ask_for_further_input"
      kept == IF mapping THEN [held EXCEPT !.next = END] ELSE held
  IN /\ dpc = "body"
     /\ snapshot' = Deref(state)
     /\ output' = chunk.update
     /\ objs' = (1 :> [kept EXCEPT !.messages = 1])
     /\ lists' = (1 :> kept.messages)
     /\ state' = 1
     /\ mapped' = IF mapping THEN runs ELSE mapped
     /\ last' = IF mapping THEN "mapped"
                ELSE IF held.next = END THEN "completed" ELSE "observed"
     /\ IF ~mapping /\ held.next = END
        THEN /\ dpc' = "loop"
             /\ UNCHANGED user_request_dummy
        ELSE \E answer \in ContinueAnswers :
               /\ user_request_dummy' = answer
               /\ dpc' = IF answer_tested(answer) THEN "returned" ELSE "stream"
     /\ UNCHANGED <<arg, routed, merges, user_request, chunk, exc, dfault, sessions, runs,
                    compileVars, toolVars, graphVars>>

\* the except clause: the known fault leaves the inner loop, any other fault
\* leaves interactive_mode
HandleFault ==
  /\ dpc = "except"
  /\ IF caught(exc)
     THEN /\ dpc' = "session"
          /\ last' = "restarted"
          /\ UNCHANGED dfault
     ELSE /\ dpc' = "raised"
          /\ last' = "raised"
          /\ dfault' = exc
  /\ UNCHANGED <<objs, lists, state, arg, snapshot, output, routed, merges, user_request, user_request_dummy,
                 chunk, exc, sessions, runs, mapped, compileVars, toolVars, graphVars>>

NextDriver ==
  \/ NewSession
  \/ ReadRequest
  \/ Stream
  \/ StreamTask
  \/ StreamOutOfSteps
  \/ StreamEnd
  \/ HandleOutput
  \/ HandleFault

SpecDriver == InitDriver /\ [][NextDriver]_vars

Init ==
  /\ CompileIdle
  /\ ToolIdle
  /\ GraphIdle
  /\ DriverIdle
  /\ objs = (1 :> FreshState(1, NoNext))
  /\ lists = (1 :> <<>>)
  /\ state = 1
  /\ arg = 0
  /\ snapshot = FreshState(<<>>, NoNext)
  /\ output = NoUpdate
  /\ routed = "none"
  /\ last = "init"
  /\ merges = 0

Next == Merge \/ SeedRequest \/ MapFurtherInput

Spec == Init /\ [][Next]_vars

\* the Router applied to states drawn from every value of next
InitRouter ==
  \E n \in NextValues, m \in SeqsUpTo(Msgs, 1), t \in TableVals :
    /\ CompileIdle
    /\ ToolIdle
    /\ GraphIdle
    /\ DriverIdle
    /\ objs = (1 :> [FreshState(1, n) EXCEPT !.source_tables = t])
    /\ lists = (1 :> m)
    /\ state = 1
    /\ arg = 0
    /\ snapshot = [FreshState(m, n) EXCEPT !.source_tables = t]
    /\ output = NoUpdate
    /\ routed = "none"
    /\ last = "init"
  /\ merges = 0

NextRouter == Route

SpecRouter == InitRouter /\ [][NextRouter]_vars

\* ================================================================== claims
\* the state returned by, and the state passed to, the last update_agent_state
Result == Deref(state)
NoDupContent(msgs) ==
  \A i, j \in 1..Len(msgs) : i # j => msgs[i].content # msgs[j].content
\* the messages the last update carried
UpdMsgs == IF "messages" \in output.keys THEN output.messages ELSE <<>>

\* C1: define_next_action returns state.next for each of the 8 routed task names
\* and END for every other value of next, and leaves the state as it was.
C1_RouterTable ==
  last = "routed" =>
    /\ routed \in RouterNames \cup {END}
    /\ (snapshot.next \in RouterNames => routed = snapshot.next)
    /\ (snapshot.next \notin RouterNames => routed = END)
    /\ arg = state
    /\ Deref(state) = snapshot
C1_Witness ==
  last = "routed" /\ snapshot.next = "elicit_schema" /\ routed = "elicit_schema"

\* C2: the messages of the state update_agent_state returns hold no two entries
\* with equal content, whatever the update repeats.
C2_NoDuplicateContent == last = "merged" => NoDupContent(Result.messages)
C2_Witness ==
  /\ last = "merged"
  /\ \E i, j \in 1..Len(UpdMsgs) : i # j /\ UpdMsgs[i].content = UpdMsgs[j].content
  /\ \E i \in 1..Len(UpdMsgs) : HasContent(snapshot.messages, UpdMsgs[i].content)

\* C3: the state passed to update_agent_state keeps the value it had at the call,
\* also while the returned state is changed in place later; the returned state is
\* another object with another messages list.
C3_InputNotMutated ==
  arg # 0 =>
    /\ Deref(arg) = snapshot
    /\ state # arg
    /\ objs[state].messages # objs[arg].messages
C3_Witness ==
  /\ arg # 0
  /\ last = "seeded"
  /\ Result.messages # snapshot.messages

\* the positions of the update's messages whose content matches no earlier message
Kept ==
  {i \in 1..Len(UpdMsgs) :
     /\ ~HasContent(snapshot.messages, UpdMsgs[i].content)
     /\ \A j \in 1..(i - 1) : UpdMsgs[j].content # UpdMsgs[i].content}

\* C4: the returned messages are the input's messages, unchanged, followed by
\* the update's messages whose content matches no earlier message, in update order.
C4_PrefixThenNewInOrder ==
  last = "merged" =>
    LET old == snapshot.messages
        new == Result.messages
    IN /\ Len(new) = Len(old) + Cardinality(Kept)
       /\ \A i \in 1..Len(old) : new[i] = old[i]
       /\ \A i \in Kept : new[Len(old) + Cardinality({j \in Kept : j <= i})] = UpdMsgs[i]
C4_Witness ==
  /\ last = "merged"
  /\ snapshot.messages # <<>>
  /\ Kept # {}
  /\ Cardinality(Kept) < Len(UpdMsgs)

\* C5: a non-null source_tables / target_tables of the update replaces the field;
\* an absent key or a null value leaves the field as the input state has it.
C5_TablesReplacedUnlessNull ==
  last = "merged" =>
    \A f \in {"source_tables", "target_tables"} :
      Result[f] = IF f \in output.keys /\ output[f] # None THEN output[f] ELSE snapshot[f]
C5_Witness ==
  /\ last = "merged"
  /\ "source_tables" \in output.keys
  /\ output.source_tables = None
  /\ snapshot.source_tables = ListOf(<<"t1">>)

TableFields == {"source_tables", "target_tables", "intermediate_tables"}

\* C6 as stated: an update carrying an empty list or null for a tables field
\* leaves that field untouched.
C6_EmptyLeavesUntouched ==
  last = "merged" =>
    \A f \in TableFields :
      (f \in output.keys /\ output[f] \in {None, ListOf(<<>>)}) => Result[f] = snapshot[f]

\* C6 amended: for source_tables and target_tables null leaves the field
\* untouched and the empty list replaces it like any non-null value; for
\* intermediate_tables every carried value, null and the empty list included,
\* replaces the field.
C6_OnlyNullLeavesUntouched ==
  last = "merged" =>
    /\ \A f \in {"source_tables", "target_tables"} :
         /\ (f \in output.keys /\ output[f] = None) => Result[f] = snapshot[f]
         /\ (f \in output.keys /\ output[f] = ListOf(<<>>)) => Result[f] = ListOf(<<>>)
    /\ "intermediate_tables" \in output.keys =>
         Result.intermediate_tables = output.intermediate_tables
C6_Witness ==
  /\ last = "merged"
  /\ "source_tables" \in output.keys
  /\ output.source_tables = ListOf(<<>>)
  /\ snapshot.source_tables = ListOf(<<"t1">>)

\* C7: next takes the update's value whenever the key is present; another key
\* naming a state field sets that field; a key naming no field, and '__end__',
\* adds nothing; the fields whose key is absent keep the input's value.
C7_OtherKeys ==
  last = "merged" =>
    /\ "next" \in output.keys => Result.next = output.next
    /\ "intermediate_tables" \in output.keys =>
         Result.intermediate_tables = output.intermediate_tables
    /\ DOMAIN Result = DOMAIN snapshot
    /\ Result.extra = snapshot.extra
    /\ \A f \in StateFields : f \notin output.keys => Result[f] = snapshot[f]
C7_Witness ==
  /\ last = "merged"
  /\ output.keys = {"next", "__end__"}
  /\ output.next = END
  /\ snapshot.next = "generate_code"

\* C8: merging the same update into the result again changes nothing, and an
\* update whose message contents all occur in the input leaves messages as it is.
C8_Idempotent ==
  last = "merged" =>
    /\ update_agent_state(Result, output) = Result
    /\ (\A i \in 1..Len(UpdMsgs) : HasContent(snapshot.messages, UpdMsgs[i].content))
         => Result.messages = snapshot.messages
C8_Witness ==
  /\ last = "merged"
  /\ UpdMsgs # <<>>
  /\ \A i \in 1..Len(UpdMsgs) : HasContent(snapshot.messages, UpdMsgs[i].content)
  /\ \E i \in 1..Len(UpdMsgs), j \in 1..Len(snapshot.messages) :
       /\ UpdMsgs[i].content = snapshot.messages[j].content
       /\ UpdMsgs[i].role # snapshot.messages[j].role

\* every compilation so far reported errors and every repair returned files
NeverCleanAlwaysRepaired ==
  /\ \A i \in 1..Len(compileLog) : compileLog[i] = "errors"
  /\ \A i \in 1..Len(repairLog) : repairLog[i] = "files"

\* C9: a call of upload_and_compile_files issues at most 3 compilation requests,
\* and once the 3rd has reported errors the call does not fail and returns None.
C9_AtMostThreeCompiles ==
  /\ Len(compileLog) <= 3
  /\ (Len(compileLog) = 3 /\ compileLog[3] = "errors") =>
       /\ cpc # "raised"
       /\ cpc = "done" => result = ReturnedNone
C9_Witness ==
  /\ cpc = "done"
  /\ Len(compileLog) = 3
  /\ compileLog[3] = "errors"
  /\ result = ReturnedNone

\* C10: when no compilation is error-free and every repair returns replacement
\* files, the call returns only after exactly 3 compilation requests, with None.
C10_FailsExactlyOnThird ==
  NeverCleanAlwaysRepaired =>
    /\ Len(compileLog) <= 3
    /\ cpc # "raised"
    /\ cpc = "done" => (Len(compileLog) = 3 /\ result = ReturnedNone)
C10_Witness ==
  /\ NeverCleanAlwaysRepaired
  /\ cpc = "done"
  /\ Len(compileLog) = 3
  /\ Len(repairLog) = 3
  /\ result = ReturnedNone

LastOf(log) == log[Len(log)]

\* C11: once a compilation reports zero errors the call has returned a summary
\* with that compilation's name, the workspace and an empty error list, and
\* nothing more is requested; no summary returned carries errors.
C11_SuccessReturnsAtOnce ==
  /\ (compileLog # <<>> /\ LastOf(compileLog) = "no_errors") =>
       /\ cpc = "done"
       /\ result = [kind |-> "summary", name |-> Len(compileLog),
                    workspace |-> WorkspacePath, compilation_errors |-> <<>>]
       /\ Len(repairLog) = Len(compileLog) - 1
       /\ ~ENABLED NextCompile
  /\ result.kind = "summary" =>
       (result.compilation_errors = <<>> /\ LastOf(compileLog) = "no_errors")
C11_Witness ==
  /\ Len(compileLog) = 2
  /\ LastOf(compileLog) = "no_errors"
  /\ cpc = "done"
  /\ result.kind = "summary"

AllRepairsReturnedFiles == \A i \in 1..Len(repairLog) : repairLog[i] = "files"
\* the first n compilations all reported errors
ErrorsUpTo(n) == \A i \in 1..n : compileLog[i] = "errors"

\* C12: with errors on attempts 1..k-1, none on attempt k, and files from every
\* repair, the call makes exactly k compilation requests and k-1 repair requests
\* and returns a summary with an empty error list.
C12_KCompilesKMinusOneRepairs ==
  AllRepairsReturnedFiles =>
    /\ (compileLog # <<>> /\ ErrorsUpTo(Len(compileLog) - 1)
          /\ LastOf(compileLog) = "no_errors") =>
         /\ cpc = "done"
         /\ attempt = Len(compileLog)
         /\ Len(repairLog) = Len(compileLog) - 1
         /\ result.kind = "summary"
         /\ result.compilation_errors = <<>>
    /\ (ErrorsUpTo(Len(compileLog)) /\ cpc = "compile") =>
         /\ attempt = Len(compileLog) + 1
         /\ Len(repairLog) = Len(compileLog)
C12_Witness ==
  /\ compileLog = <<"errors", "errors", "no_errors">>
  /\ repairLog = <<"files", "files">>
  /\ cpc = "done"
  /\ result.kind = "summary"
  /\ result.compilation_errors = <<>>

\* the writes of the last repair's files are over and none of them failed
FixedBatchWritten ==
  /\ repairLog # <<>>
  /\ LastOf(repairLog) = "files"
  /\ Len(repairLog) = Len(compileLog)
  /\ cpc \in {"compile", "done"}
  /\ \A i \in 1..Len(writeLog) : writeLog[i].ok

\* C13: a repair that returns no replacement files (an empty 'files', or an
\* object without the key) ends the call with None and no further compilation
\* request, whatever attempts remain; replacement files are each written to the
\* workspace and the loop goes on to the next attempt.
C13_NoFilesAborts ==
  /\ (repairLog # <<>> /\ LastOf(repairLog) = "no_files") =>
       /\ response_content.kind \in {"empty_files", "no_files_key"}
       /\ cpc = "done"
       /\ result = ReturnedNone
       /\ Len(compileLog) = Len(repairLog)
       /\ ~ENABLED NextCompile
  /\ response_content.kind \in {"empty_files", "no_files_key"} =>
       (repairLog # <<>> /\ LastOf(repairLog) = "no_files")
  /\ FixedBatchWritten =>
       /\ Len(writeLog) = Len(fixed_files)
       /\ \A i \in 1..Len(fixed_files) :
            /\ writeLog[i].path = fixed_files[i].path
            /\ workspace[fixed_files[i].path] = fixed_files[i].content
       /\ attempt = Len(repairLog) + 1
       /\ (cpc = "compile") = (Len(repairLog) < 3)
C13_Witness ==
  /\ repairLog = <<"no_files">>
  /\ response_content.kind = "no_files_key"
  /\ Len(compileLog) = 1
  /\ cpc = "done"
  /\ result = ReturnedNone

\* the write_file requests logged so far are for the first files of fs, in order
WritesFollow(fs) ==
  /\ Len(writeLog) <= Len(fs)
  /\ \A i \in 1..Len(writeLog) : writeLog[i].path = fs[i].path

\* C14: in the initial upload a write is requested for every input file, in
\* input order, whichever writes failed, and compilation starts only afterwards,
\* also when every write failed.
C14_UploadBatchNotAborted ==
  /\ cpc = "upload" =>
       /\ compileLog = <<>>
       /\ Len(writeLog) = upload_i - 1
       /\ WritesFollow(files)
  /\ (cpc \notin {"upload", "idle"} /\ \A i \in 1..Len(repairLog) : repairLog[i] # "files") =>
       /\ Len(writeLog) = Len(files)
       /\ WritesFollow(files)
  /\ compileLog # <<>> => upload_i = Len(files) + 1
C14_Witness ==
  /\ Len(files) = 2
  /\ Len(writeLog) = 2
  /\ \A i \in 1..2 : ~writeLog[i].ok /\ writeLog[i].path = files[i].path
  /\ compileLog # <<>>
  /\ repairLog = <<>>

\* the pass that wrote the last repair's files is over
FixedBatchOver ==
  /\ repairLog # <<>>
  /\ LastOf(repairLog) = "files"
  /\ Len(repairLog) = Len(compileLog)
  /\ cpc \in {"compile", "done"}

\* C15 as stated: a write is requested for every file of a repair, whichever
\* writes of the batch failed, before the next compilation attempt.
C15_FixedBatchNotAborted ==
  FixedBatchOver => (Len(writeLog) = Len(fixed_files) /\ WritesFollow(fixed_files))

\* the fix_compilation_errors call for the last compilation has returned a value
RepairHasReturned ==
  /\ repairLog # <<>>
  /\ Len(repairLog) = Len(compileLog)
  /\ LastOf(repairLog) \in {"files", "no_files"}
\* the first n responses of the current repair failed to parse
UnparsedUpTo(n) == \A i \in 1..n : responses[i].kind = "bad_json"

\* C16: fix_compilation_errors returns exactly when a response parses: with
\* n-1 unparsable responses and a parsable n-th it has made n model calls and
\* returns what the n-th response holds.
C16_ReturnsWhenParsed ==
  /\ cpc = "refine" =>
       /\ Len(responses) = modelCalls
       /\ UnparsedUpTo(modelCalls)
       /\ Len(repairLog) = Len(compileLog) - 1
       /\ result = Pending
  /\ RepairHasReturned =>
       /\ Len(responses) = modelCalls
       /\ UnparsedUpTo(modelCalls - 1)
       /\ responses[modelCalls].kind \in {"files", "empty_files", "no_files_key"}
       /\ response_content = responses[modelCalls]
       /\ fixed_files =
            IF responses[modelCalls].kind = "files"
            THEN Replacements(responses[modelCalls].nfiles, Len(repairLog))
            ELSE <<>>
C16_Witness ==
  /\ modelCalls = 3
  /\ Len(responses) = 3
  /\ UnparsedUpTo(2)
  /\ responses[3].kind = "files"
  /\ cpc = "write_fixed"
  /\ fixed_files = Replacements(responses[3].nfiles, Len(repairLog))

\* C17: the response repair loop has no attempt bound: while the responses fail
\* to parse the call has not returned and the next repair prompt can be issued,
\* and it never ends with a value, or a fault, for want of a parsable response.
C17_NoAttemptBound ==
  /\ cpc = "refine" =>
       /\ result = Pending
       /\ UnparsedUpTo(Len(responses))
       /\ modelCalls < MaxModelCalls => ENABLED FixJsonParseErrors
  /\ RepairHasReturned => LastOf(responses).kind # "bad_json"
  /\ (repairLog # <<>> /\ Len(repairLog) = Len(compileLog) /\ LastOf(repairLog) = "raised") =>
       \/ Len(responses) < modelCalls
       \/ LastOf(responses).kind = "not_dict"
C17_Witness ==
  /\ cpc = "refine"
  /\ modelCalls = MaxModelCalls
  /\ Len(responses) = MaxModelCalls
  /\ UnparsedUpTo(MaxModelCalls)

\* C18: every repair prompt carries the original prompt of the call, the last
\* response that failed to parse and that response's parse error; the response
\* parsed next is the one this repair call returned.
C18_RepairPromptContents ==
  sent.kind = "fix_json_parse_errors" =>
    /\ modelCalls >= 2
    /\ sent.prompt = prompt
    /\ sent.prompt.kind = "fix_compilation_errors"
    /\ sent.prompt.files = files
    /\ sent.previous_response = responses[modelCalls - 1]
    /\ sent.previous_response.kind = "bad_json"
    /\ sent.error = [kind |-> "JSONDecodeError", of |-> modelCalls - 1]
    /\ Len(responses) = modelCalls =>
         (response_content = responses[modelCalls] /\ response_content.n = modelCalls)
C18_Witness ==
  /\ sent.kind = "fix_json_parse_errors"
  /\ modelCalls = 3
  /\ Len(responses) = 3
  /\ sent.previous_response = responses[2]
  /\ sent.prompt = prompt

\* C19: every call site that parses a model answer goes through the response
\* repair loop: none of identify_dataform_files, fix_compilation_errors and
\* structure_transformation_request returns None or raises because of a
\* parse failure.
C19_EveryCallSiteRepairs ==
  /\ \A i \in DOMAIN site_log :
       site_log[i].cause = "JSONDecodeError" => site_log[i].outcome = "value"
  /\ cpc = "refine" => result = Pending

\* C20: a run of the graph starts with get_initial_user_request and goes on
\* with elicit_schema; it ends right after ask_for_further_input; after each
\* step with a conditional edge the engine is at the step define_next_action
\* returns for the state with that step's update, or has ended when it
\* returns END.
C20_StepsFollowRouter ==
  gfault # "task" =>
    /\ gsteps = 1 => gprev = "get_initial_user_request"
    /\ gprev = "get_initial_user_request" => gnode = "elicit_schema"
    /\ gprev = "ask_for_further_input" => gnode = END
    /\ gprev \in ConditionalSources => gnode = define_next_action([next |-> gnext])

\* the names the engine can be handed, from the steps in S on, along the static
\* edges and the Router's returns for every value of next
RECURSIVE HandedOffFrom(_)
HandedOffFrom(S) ==
  LET T == S \cup {edge(n, x) : n \in S \cap Nodes, x \in NextValues}
  IN IF T = S THEN S ELSE HandedOffFrom(T)

\* C27: from the start of a run, at the entry point, some way along the static
\* edges and the Router's choices hands off to ask_for_further_input.
C27_FurtherInputReachable ==
  gsteps = 0 => "ask_for_further_input" \in HandedOffFrom({gnode})

\* the current repair request has been issued and none of its files written yet
RepairRequested ==
  \/ cpc = "refine"
  \/ cpc = "write_fixed" /\ writeLog = <<>>

\* C28: the files given to a repair request are the current ones: every path an
\* earlier repair of the call replaced is passed with the content the
\* workspace holds, not with the content the caller passed in.
C28_RepairGetsCurrentFiles ==
  RepairRequested =>
    \A i \in DOMAIN repairArg :
      workspace[repairArg[i].path] > 0 =>
        repairArg[i].content = workspace[repairArg[i].path]

\* C29: every name define_next_action returns, END aside, is a node of the
\* workflow graph.
C29_RouterNamesRegistered ==
  last = "routed" => routed \in Nodes \cup {END}

\* C30: with errors from all 3 compilations and files from every repair, 3
\* repair requests are made and the call returns None; the files of the third
\* repair are written to the workspace and no compilation follows them.
C30_ThirdRepairNeverCompiled ==
  /\ (NeverCleanAlwaysRepaired /\ cpc = "done") => Len(repairLog) = 3
  /\ (NeverCleanAlwaysRepaired /\ Len(repairLog) = 3) =>
       /\ Len(compileLog) = 3
       /\ cpc \in {"write_fixed", "done"}
       /\ fixed_files # <<>>
       /\ \A i \in DOMAIN fixed_files : fixed_files[i].content = 3
       /\ WritesFollow(fixed_files)
       /\ \A i \in 1..Len(writeLog) : writeLog[i].ok => workspace[writeLog[i].path] = 3
       /\ cpc = "done" =>
            /\ result = ReturnedNone
            /\ (\A i \in 1..Len(writeLog) : writeLog[i].ok) =>
                 Len(writeLog) = Len(fixed_files)
C30_Witness ==
  /\ NeverCleanAlwaysRepaired
  /\ cpc = "done"
  /\ Len(compileLog) = 3
  /\ Len(repairLog) = 3
  /\ Len(fixed_files) = 2
  /\ Len(writeLog) = 2
  /\ workspace[1] = 3
  /\ workspace[2] = 3
  /\ result = ReturnedNone

\* C21: a run of the graph executes at most 20 steps; with the budget used up
\* and a step still due the run is cut by a fault, which leaves
\* interactive_mode: it is not caught and not turned into a restart.
C21_BudgetFaultPropagates ==
  /\ gsteps <= 20
  /\ (dpc = "stream" /\ gnode \in Nodes /\ gsteps = 20) =>
       (~ENABLED StreamTask /\ ENABLED StreamOutOfSteps)
  /\ exc.type = "GraphRecursionError" =>
       /\ gsteps = 20
       /\ dpc \in {"except", "raised"}
       /\ last # "restarted"
       /\ dpc = "raised" => dfault = exc
C21_Witness ==
  /\ dpc = "raised"
  /\ dfault.type = "GraphRecursionError"
  /\ gsteps = 20
  /\ gprev = "ask_clarifications"
  /\ gnext = "elicit_schema"

\* the driver has handled the output of a Task Step
StepOutputHandled ==
  /\ last \in {"observed", "mapped", "completed"}
  /\ dpc \in {"stream", "loop"}
  /\ chunk.key \in Nodes

\* C22: once the driver has handled the update of a Task Step, its state is
\* update_agent_state(previous state, update), with next mapped to END when it
\* is "ask_for_further_input".
C22_UpdatesFolded ==
  StepOutputHandled =>
    LET merged == update_agent_state(snapshot, output)
    IN Deref(state) = IF merged.next = "ask_for_further_input"
                      THEN [merged EXCEPT !.next = END] ELSE merged

\* the requests that are the exit token, ignoring case
ExitTokens == {"exit", "EXIT", "Quit"}

\* C23: interactive_mode returns exactly on a request that is 'exit' or 'quit'
\* ignoring case, with the state unseeded and no step run for it; any other
\* request is stored in state.input, appended as a human message and streamed;
\* otherwise interactive_mode ends only by a fault.
C23_ExitOnlyOnToken ==
  /\ dpc = "returned" =>
       /\ last = "exit"
       /\ user_request \in ExitTokens
       /\ Deref(state) = FreshState(<<>>, NoNext)
       /\ runs = 0
       /\ dfault = NoFault
  /\ last = "seeded" =>
       /\ user_request \in Requests \ ExitTokens
       /\ objs[state].input = user_request
       /\ lists[objs[state].messages] = <<[role |-> "human", content |-> user_request]>>
       /\ dpc = "loop"
       /\ ENABLED Stream
       /\ ~ENABLED ReadRequest
  /\ dpc = "raised" => dfault # NoFault
C23_Witness ==
  /\ dpc = "returned"
  /\ user_request = "EXIT"
  /\ sessions = 2
  /\ exc # NoFault

\* the texts that hold the known edge name
KnownTexts == {KnownEdge, <<"'">> \o KnownEdge \o <<"'">>}

\* C24: a KeyError whose text holds 'branch:upload_files:wrapper:end' is caught
\* and the session restarts with a fresh state and a prompt for a request; a
\* KeyError with another text and a fault of another kind leave
\* interactive_mode.
C24_KnownFaultRestarts ==
  /\ last = "restarted" =>
       /\ exc.type = "KeyError"
       /\ exc.text \in KnownTexts
       /\ dpc = "session"
       /\ dfault = NoFault
  /\ dpc = "raised" =>
       /\ dfault = exc
       /\ ~(exc.type = "KeyError" /\ exc.text \in KnownTexts)
  /\ last = "new_session" =>
       /\ Deref(state) = FreshState(<<>>, NoNext)
       /\ dpc = "loop"
       /\ ENABLED ReadRequest
       /\ ~ENABLED Stream
C24_Witness ==
  /\ last = "new_session"
  /\ sessions = 2
  /\ exc.type = "KeyError"
  /\ exc.text = <<"'">> \o KnownEdge \o <<"'">>
  /\ Deref(state) = FreshState(<<>>, NoNext)

\* C25: once the driver has observed next == END after an output, the state is
\* discarded and a new session with a fresh state starts.
C25_TerminalStartsFreshSession ==
  last = "completed" =>
    \/ dpc = "session"
    \/ Deref(state) = FreshState(<<>>, NoNext)

\* C26: once the driver has mapped next == "ask_for_further_input" to END the
\* session is over: no further step of the workflow runs for that state and
\* the driver does not go round its inner loop with it.
C26_FurtherInputEndsSession ==
  mapped # 0 =>
    /\ ~(runs > mapped /\ gsteps > 0)
    /\ dpc # "loop"

\* a fault is raised inside the try block of the current attempt: by the repair
\* (the model call, or the use of what was parsed) or by a write of a fixed file
RepairStepFaults ==
  \/ /\ cpc \in {"fix", "refine"}
     /\ repairLog' = Append(repairLog, "raised")
  \/ /\ cpc = "write_fixed"
     /\ Len(writeLog') = Len(writeLog) + 1
     /\ ~writeLog'[Len(writeLog')].ok
\* the compilation request raises
CompileFaults ==
  /\ cpc = "compile"
  /\ compileLog' = Append(compileLog, "raised")

\* C31: a fault raised inside the repair step of attempt k is swallowed: the
\* attempt is consumed and the call compiles again if k < 3 and returns None if
\* k = 3, it is not ended as for 'no replacement files'; a fault raised by the
\* compilation request leaves the call.
C31_RepairFaultsSwallowed ==
  [][ /\ RepairStepFaults =>
           /\ attempt' = attempt + 1
           /\ Len(compileLog) = attempt
           /\ compileLog' = compileLog
           /\ attempt < 3 => (cpc' = "compile" /\ result' = Pending)
           /\ attempt = 3 => (cpc' = "done" /\ result' = ReturnedNone)
      /\ CompileFaults => (cpc' = "raised" /\ result' = Pending)
      /\ cpc' = "raised" => CompileFaults
    ]_vars
C31_Witness ==
  /\ cpc = "done"
  /\ result = ReturnedNone
  /\ repairLog = <<"raised", "files", "raised">>
  /\ Len(compileLog) = 3
  /\ writeLog # <<>>
  /\ ~writeLog[Len(writeLog)].ok

\* the response repair loop is waiting on a response that did not parse
AwaitingParse == cpc = "refine" /\ response_content.kind = "bad_json"
\* upload_and_compile_files is over: it returned, or the compilation request's
\* fault left it
CallOver == (cpc = "done" /\ result # Pending) \/ cpc = "raised"

\* C32: with every external call coming back, upload_and_compile_files ends
\* unless the responses of a repair never parse; while a repair's responses do
\* not parse the call has not returned and no further compilation is requested,
\* whatever the attempt.
C32_TerminatesUnlessNeverParsed ==
  /\ <>CallOver \/ <>[]AwaitingParse
  /\ [](cpc = "refine" =>
         /\ AwaitingParse
         /\ result = Pending
         /\ attempt \in 1..3
         /\ Len(compileLog) = attempt
         /\ Len(repairLog) = attempt - 1)
C32_Witness ==
  /\ cpc = "done"
  /\ result.kind = "summary"
  /\ Len(compileLog) = 3
  /\ repairLog = <<"raised", "files">>
  /\ modelCalls = 3
  /\ Len(responses) = 3
  /\ UnparsedUpTo(2)

\* the driver's state is seeded
Seeded == lists[objs[state].messages] # <<>>
\* a step of the driver that leaves its Conversation State and request alone
SameState == UNCHANGED <<objs, lists, state, user_request, sessions>>

\* C33: a request is read only while the state's messages are empty; when a run
\* of the graph on a seeded state ends without next == END observed and without
\* a fault, the driver is back at its inner loop with the same state and can
\* only run the graph again on it; the answer typed at "Continue?" does not
\* make interactive_mode return or restart.
C33_RerunsWithoutNewRequest ==
  /\ [](ENABLED ReadRequest => ~Seeded)
  /\ []((dpc = "loop" /\ Seeded) =>
          /\ ~ENABLED NewSession
          /\ runs < MaxRuns => ENABLED Stream)
  /\ [][ /\ (dpc = "stream" /\ dpc' = "loop") =>
              (Seeded /\ SameState /\ last' = "stream_ended")
         /\ runs' = runs + 1 =>
              (Seeded /\ SameState /\ dpc' = "stream" /\ gnext' = objs[state].next)
         /\ user_request_dummy' # user_request_dummy =>
              (dpc' = "stream" /\ UNCHANGED <<user_request, sessions>>)
         /\ dpc' = "returned" => (dpc = "loop" /\ ~Seeded)
       ]_vars
C33_Witness ==
  /\ dpc = "stream"
  /\ sessions = 1
  /\ runs = 2
  /\ gsteps = 1
  /\ last = "observed"
  /\ user_request = "exits"
  /\ user_request_dummy = "exit"
  /\ objs[state].next # END
  /\ mapped = 0

====
